---- MODULE Spec2Model ----
(***************************************************************************)
(* Model of the trait-prediction service: the /analyze request of app.py   *)
(* and the four section scorers (relationship_empathy, work_DNA_focus,     *)
(* creativity_pulse, stress_resilience) that turn an OpenFace measurement  *)
(* table into scores.                                                      *)
(*                                                                         *)
(* Numbers.  The code computes with floats; the model computes with exact  *)
(* fixed-point numbers: the integer v stands for the real v / SCALE.       *)
(* SCALE = 2^6 * 3 * 5^3 * 7 is chosen so that every division and every    *)
(* weighted product the scorers compute from the cell values used below    *)
(* comes out even.  A pose cell holds an angle in units of PI/12 rad,      *)
(* whose value in degrees is a whole number.                               *)
(***************************************************************************)
EXTENDS Integers, Sequences, FiniteSets, TLC

VARIABLES
    pc,         \* position of the request in analyze_video
    cols,       \* the columns of the measurement table (df.columns)
    dtype,      \* dtype of the row Series df.iterrows() yields
    table,      \* the rows of the measurement table, in file order
    rng,        \* the stream random.random() draws from
    calls,      \* number of draws taken from the stream so far
    sec,        \* the section scorer now running (0: none)
    i,          \* rows the running scorer has consumed
    series,     \* the running scorer's lists (its ScoreSeries)
    au_values,  \* au_values of the last row whose extraction completed
    raw,        \* the last row's scores before make_score
    results,    \* section1..section4 as returned so far
    outcome,    \* what the request returned, or that it raised
    run,        \* 1: first scoring of the table, 2: the repeated scoring
    first,      \* the section results of the first scoring
    call,       \* a function call taken on its own: arguments and result
    reqs,       \* concurrent requests: each one's position and outcome
    fs,         \* the result folder: the directories and tables in it
    loop        \* the event loop: whether shared, and the request holding it

vars == <<pc, cols, dtype, table, rng, calls, sec, i, series, au_values, raw,
          results, outcome, run, first, call, reqs, fs, loop>>

----------------------------------------------------------------------------
(* Fixed-point arithmetic *)

SCALE == 168 * 1000

\* the real p/q
P(p, q) == (SCALE * p) \div q

\* v * (p/q)
Mul(v, p, q) == (v * p) \div q

Abs(x) == IF x < 0 THEN -x ELSE x

Min2(a, b) == IF a <= b THEN a ELSE b

Max2(a, b) == IF a >= b THEN a ELSE b

RECURSIVE SumSeq(_)
SumSeq(s) == IF s = <<>> THEN 0 ELSE s[1] + SumSeq(Tail(s))

\* np.degrees of a pose cell (the cell counts units of PI/12 rad = 15 degrees)
Degrees(cell) == cell * 15 * SCALE

----------------------------------------------------------------------------
(* Columns of the measurement table (names as OpenFace writes them) *)

GazeCols == {" gaze_0_x", " gaze_0_y", " gaze_1_x", " gaze_1_y"}

PoseCols == {" pose_Rx", " pose_Ry"}

\* landmark columns in file order
XOrder == <<" x_0", " x_1", " x_2", " x_3">>

YOrder == <<" y_0", " y_1", " y_2", " y_3">>

AUCols == {" AU01_r", " AU02_r", " AU04_r", " AU05_r", " AU06_r", " AU12_r",
           " AU15_r", " AU25_r", " AU26_r", " AU45_r"}

Range(s) == {s[j] : j \in 1..Len(s)}

AllCols == AUCols \cup GazeCols \cup PoseCols \cup Range(XOrder) \cup Range(YOrder)

\* "col in data.keys()"
Has(data, col) == col \in DOMAIN data

\* data[au_col].mean() raises AttributeError when the cell is a Python scalar:
\* iterrows() yields numpy scalars only for a table whose columns are all
\* numeric; one non-numeric column makes every row an object Series.
MeanRaises(data, au_cols) == dtype = "object" /\ \E c \in au_cols : Has(data, c)

\* au_values[au] = data[au_col].mean() / 5.0 if the column is present, else 0.0
Normalized(data, au_col) == IF Has(data, au_col) THEN data[au_col] \div 5 ELSE 0

----------------------------------------------------------------------------
(* The random source: random.random() reads an ambient stream.  The stream  *)
(* of one request is one of Streams; "zero" is the stream pinned to 0.      *)

Streams == {"zero", "high", "alt"}

\* the k-th draw (k = 0, 1, ...) of the stream, a value in [0, 1)
RandUnpinned(k) == IF k % 2 = 0 THEN P(9, 10) ELSE 0

Rand(k) ==
    CASE rng = "zero" -> 0
      [] rng = "high" -> P(9, 10)
      [] OTHER        -> IF k % 2 = 0 THEN 0 ELSE P(9, 10)

----------------------------------------------------------------------------
(* Score smoothing: make_score of relationship_empathy.py (1) and of        *)
(* work_DNA_focus.py (2).  r1 and r2 are the draws of the two branches.     *)

make_score1_shifted(score, r1, r2) ==
    LET low == IF score <= P(3, 10)
               THEN P(2, 10) + Mul(score, 1, 10) + Mul(r1, 7, 100)
               ELSE score
    IN  IF low >= P(93, 100)
        THEN P(93, 100) + Mul(SCALE - low, 1, 10) + Mul(r2, 3, 100)
        ELSE low

make_score1(score, r1, r2) ==
    LET low == IF score <= P(3, 10)
               THEN P(3, 10) + Mul(score, 1, 10) + Mul(r1, 7, 100)
               ELSE score
    IN  IF low >= P(93, 100)
        THEN P(93, 100) - Mul(SCALE - low, 1, 10) - Mul(r2, 3, 100)
        ELSE low

make_score2_unsmoothed(score, r1, r2) == score

make_score2_inverted(score, r1, r2) ==
    LET low == IF score <= P(3, 10)
               THEN P(3, 10) - Mul(score, 1, 10) + Mul(r1, 7, 100)
               ELSE score
    IN  IF low >= P(93, 100)
        THEN P(93, 100) - Mul(SCALE - low, 1, 10) - Mul(r2, 5, 100)
        ELSE low

make_score2(score, r1, r2) ==
    LET low == IF score <= P(3, 10)
               THEN P(3, 10) + Mul(score, 1, 10) + Mul(r1, 7, 100)
               ELSE score
    IN  IF low >= P(93, 100)
        THEN P(93, 100) - Mul(SCALE - low, 1, 10) - Mul(r2, 5, 100)
        ELSE low

\* make_score(score) reading the stream from position k: the smoothed score
\* and the position after the draws it took (one per branch entered)
Smoothed(s, score, k) ==
    LET d1  == IF score <= P(3, 10) THEN 1 ELSE 0
        low == IF score <= P(3, 10)
               THEN P(3, 10) + Mul(score, 1, 10) + Mul(Rand(k), 7, 100)
               ELSE score
        d2  == IF low >= P(93, 100) THEN 1 ELSE 0
    IN  [score |-> IF s = 1 THEN make_score1(score, Rand(k), Rand(k + d1))
                            ELSE make_score2(score, Rand(k), Rand(k + d1)),
         k     |-> k + d1 + d2]

----------------------------------------------------------------------------
(* Section 1: relationship_empathy.py *)

AUList1 == {" AU01_r", " AU06_r", " AU12_r"}

gaze_default_off(data) == 0

\* gaze_direction of calculate_gaze_iris_openface
gaze_direction(data) ==
    IF GazeCols \subseteq DOMAIN data
    THEN LET avg_gaze_x == (data[" gaze_0_x"] + data[" gaze_1_x"]) \div 2
             avg_gaze_y == (data[" gaze_0_y"] + data[" gaze_1_y"]) \div 2
         IN  IF Abs(avg_gaze_x) <= P(2, 10) /\ Abs(avg_gaze_y) <= P(2, 10)
             THEN 1 ELSE 0
    ELSE 1

iris_ratio_half(data) == P(1, 2)

\* iris_ratio of calculate_gaze_iris_openface
iris_ratio(data) ==
    IF Has(data, " AU45_r")
    THEN LET eye_openness == SCALE - Min2(data[" AU45_r"] \div 5, SCALE)
         IN  Mul(eye_openness, 1, 2)
    ELSE IF \E au \in {" AU01_r", " AU02_r", " AU05_r"} : Has(data, au)
    THEN LET present == {au \in {" AU01_r", " AU02_r", " AU05_r"} : Has(data, au)}
             total   == (IF Has(data, " AU01_r") THEN data[" AU01_r"] ELSE 0)
                      + (IF Has(data, " AU02_r") THEN data[" AU02_r"] ELSE 0)
                      + (IF Has(data, " AU05_r") THEN data[" AU05_r"] ELSE 0)
             avg_au  == total \div Cardinality(present)
             normalized_au == Min2(avg_au \div 5, SCALE)
         IN  Mul(normalized_au, 1, 2)
    ELSE 0

\* FacialAnalyzer.process_openface_data of section 1
process_openface_data1(data) ==
    IF DOMAIN data = {}
    THEN [error |-> "No data provided"]
    ELSE [iris_ratio |-> iris_ratio(data), gaze_direction |-> gaze_direction(data)]

au_values1(data) ==
    [AU01 |-> Normalized(data, " AU01_r"),
     AU06 |-> Normalized(data, " AU06_r"),
     AU12 |-> Normalized(data, " AU12_r")]

\* the four scores of one row before make_score
raw_scores1(data) ==
    LET result == process_openface_data1(data)
        au     == au_values1(data)
        gaze   == result.gaze_direction * SCALE
        iris_score == Min2(Max2((result.iris_ratio + SCALE) \div 2, 0), SCALE)
    IN  [trust         |-> Mul(au.AU06 + au.AU12, 2, 10) + Mul(gaze, 4, 10)
                           + Mul(iris_score, 2, 10),
         openness      |-> Mul(au.AU12, 5, 10) + Mul(au.AU06, 3, 10)
                           + Mul(gaze, 2, 10),
         Empathy       |-> Mul(au.AU01, 5, 10) + Mul(au.AU06, 3, 10)
                           + Mul(gaze, 2, 10),
         ConflictAvoid |-> Mul(SCALE - au.AU12, 5, 10) + Mul(SCALE - au.AU06, 3, 10)
                           + Mul(gaze, 2, 10)]

\* one iteration of the row loop of calculate_section1, the stream at k
row1(data, k) ==
    IF "error" \in DOMAIN process_openface_data1(data) \/ MeanRaises(data, AUList1)
    THEN [done |-> FALSE, k |-> k,
          append |-> [trust |-> <<>>, openness |-> <<>>, Empathy |-> <<>>,
                      ConflictAvoid |-> <<>>]]
    ELSE LET r == raw_scores1(data)
             t == Smoothed(1, r.trust, k)
             o == Smoothed(1, r.openness, t.k)
             e == Smoothed(1, r.Empathy, o.k)
             c == Smoothed(1, r.ConflictAvoid, e.k)
         IN  [done |-> TRUE, k |-> c.k, au |-> au_values1(data), raw |-> r,
              append |-> [trust |-> <<t.score>>, openness |-> <<o.score>>,
                          Empathy |-> <<e.score>>, ConflictAvoid |-> <<c.score>>]]

----------------------------------------------------------------------------
(* Section 2: work_DNA_focus.py *)

AUList2 == {" AU01_r", " AU02_r", " AU04_r", " AU06_r"}

\* get_head_pose_openface: (jaw_angle, head_pitch), both in degrees
get_head_pose_openface(data) ==
    LET head_pitch == IF Has(data, " pose_Rx") THEN Degrees(data[" pose_Rx"]) ELSE 0
        jaw_yaw    == IF Has(data, " pose_Ry")
                      THEN 100 * SCALE + Mul(Degrees(Abs(data[" pose_Ry"])), 1, 2)
                      ELSE 100 * SCALE
        jaw_angle  == IF Has(data, " AU25_r") /\ Has(data, " AU26_r")
                      THEN LET au25 == data[" AU25_r"] \div 5
                               au26 == data[" AU26_r"] \div 5
                           IN  jaw_yaw + (au25 + au26 * 2) * 10
                      ELSE jaw_yaw
    IN  [jaw_angle |-> jaw_angle, head_pitch |-> head_pitch]

\* FacialAnalyzer.process_openface_data of section 2
process_openface_data2(data) ==
    IF DOMAIN data = {}
    THEN [error |-> "No data provided"]
    ELSE get_head_pose_openface(data)

au_values2(data) ==
    [AU01 |-> Normalized(data, " AU01_r"),
     AU02 |-> Normalized(data, " AU02_r"),
     AU04 |-> Normalized(data, " AU04_r"),
     AU06 |-> Normalized(data, " AU06_r")]

raw_scores2(data) ==
    LET result == process_openface_data2(data)
        au     == au_values2(data)
        level  == SCALE - Abs(result.head_pitch) \div 30
    IN  [Persistant |-> Mul(SCALE - Abs(result.jaw_angle - 100 * SCALE) \div 40, 3, 10)
                        + Mul(level, 4, 10)
                        + Mul((au.AU01 + au.AU06) \div 2, 3, 10),
         Focus      |-> Mul(level, 4, 10) + Mul(au.AU01 + au.AU02 + au.AU06, 2, 10),
         Structure  |-> Mul(result.jaw_angle \div 140, 6, 10) + Mul(level, 4, 10),
         Risk       |-> (IF result.head_pitch > 5 * SCALE THEN P(4, 10) ELSE 0)
                        + (IF result.jaw_angle > 120 * SCALE THEN P(3, 10) ELSE 0)
                        + Mul(au.AU04, 3, 10)]

\* one iteration of the row loop of calculate_section2
row2(data, k) ==
    IF "error" \in DOMAIN process_openface_data2(data) \/ MeanRaises(data, AUList2)
    THEN [done |-> FALSE, k |-> k,
          append |-> [Persistant |-> <<>>, Focus |-> <<>>, Structure |-> <<>>,
                      Risk |-> <<>>]]
    ELSE LET r == raw_scores2(data)
             p == Smoothed(2, r.Persistant, k)
             f == Smoothed(2, r.Focus, p.k)
             s == Smoothed(2, r.Structure, f.k)
             q == Smoothed(2, r.Risk, s.k)
         IN  [done |-> TRUE, k |-> q.k, au |-> au_values2(data), raw |-> r,
              append |-> [Persistant |-> <<p.score>>, Focus |-> <<f.score>>,
                          Structure |-> <<s.score>>, Risk |-> <<q.score>>]]

----------------------------------------------------------------------------
(* Section 3: creativity_pulse.py *)

AUList3 == {" AU01_r", " AU02_r", " AU04_r", " AU06_r", " AU12_r"}

\* calculate_eye_openness: row[c] of an absent column raises KeyError, which
\* the function turns into 0.5
calculate_eye_openness(row) ==
    IF Has(row, " AU45_r")
    THEN SCALE - Min2(row[" AU45_r"] \div 5, SCALE)
    ELSE IF {" AU01_r", " AU02_r", " AU05_r"} \subseteq DOMAIN row
    THEN Min2(((row[" AU01_r"] + row[" AU02_r"] + row[" AU05_r"]) \div 3) \div 5, SCALE)
    ELSE P(1, 2)

\* [col for col in row.keys() if col.startswith(...)], in column order
PresentCols(row, order) == SelectSeq(order, LAMBDA c : Has(row, c))

\* pair_asymmetry of the pair (left_idx, right_idx) = (j, count - 1 - j), 0-based
pair_asymmetry(row, x_cols, y_cols, midline_x, j) ==
    LET left_x  == row[x_cols[j + 1]]
        right_x == row[x_cols[Len(x_cols) - j]]
        left_y  == row[y_cols[j + 1]]
        right_y == row[y_cols[Len(x_cols) - j]]
        dist_diff == Abs(Abs(left_x - midline_x) - Abs(right_x - midline_x))
        y_diff    == Abs(left_y - right_y)
    IN  dist_diff + Mul(y_diff, 1, 2)

RECURSIVE asymmetry_scores_to_middle(_, _, _, _, _)
asymmetry_scores_to_middle(row, x_cols, y_cols, midline_x, j) ==
    IF j > Len(x_cols) - 1 - j
    THEN <<>>
    ELSE <<pair_asymmetry(row, x_cols, y_cols, midline_x, j)>>
         \o asymmetry_scores_to_middle(row, x_cols, y_cols, midline_x, j + 1)

\* asymmetry_scores of the pairs j, j+1, ..., count // 2 - 1; the loop leaves
\* at the first pair whose indices meet or cross
RECURSIVE asymmetry_scores(_, _, _, _, _)
asymmetry_scores(row, x_cols, y_cols, midline_x, j) ==
    IF j >= Len(x_cols) \div 2 \/ j >= Len(x_cols) - 1 - j
    THEN <<>>
    ELSE <<pair_asymmetry(row, x_cols, y_cols, midline_x, j)>>
         \o asymmetry_scores(row, x_cols, y_cols, midline_x, j + 1)

\* calculate_facial_symmetry; y_cols[right_idx] beyond the y columns raises
\* IndexError, which the function turns into 0.5
calculate_facial_symmetry(row) ==
    LET x_cols == PresentCols(row, XOrder)
        y_cols == PresentCols(row, YOrder)
    IN  IF x_cols = <<>> \/ y_cols = <<>>
        THEN P(1, 2)
        ELSE IF Len(x_cols) >= 2 /\ Len(y_cols) < Len(x_cols)
        THEN P(1, 2)
        ELSE LET midline_x == SumSeq([j \in 1..Len(x_cols) |-> row[x_cols[j]]])
                              \div Len(x_cols)
                 scores == asymmetry_scores(row, x_cols, y_cols, midline_x, 0)
             IN  IF scores = <<>>
                 THEN P(1, 2)
                 ELSE Max2(0, SCALE - (SumSeq(scores) \div Len(scores)) * 10)

\* FacialAnalyzer.process_openface_data of section 3
process_openface_data3(row) ==
    [eye_openness |-> calculate_eye_openness(row),
     facial_symmetry |-> calculate_facial_symmetry(row)]

\* the loop fills AU01, AU02, AU04, AU06, AU12; au_values.get('AU05', 0) is
\* therefore always the default 0
au_values3(data) ==
    [AU01 |-> Normalized(data, " AU01_r"),
     AU02 |-> Normalized(data, " AU02_r"),
     AU04 |-> Normalized(data, " AU04_r"),
     AU06 |-> Normalized(data, " AU06_r"),
     AU12 |-> Normalized(data, " AU12_r"),
     AU05 |-> 0]

raw_scores3(data) ==
    LET metrics == process_openface_data3(data)
        au      == au_values3(data)
        micro_expr_score ==
            IF \E a \in {au.AU01, au.AU02, au.AU04, au.AU12} : a > P(9, 10)
            THEN SCALE ELSE 0
        asym    == SCALE - metrics.facial_symmetry
    IN  [ideation   |-> Mul(au.AU12 + au.AU06, 2, 10)
                        + Mul(metrics.eye_openness, 3, 10)
                        + Mul(micro_expr_score, 3, 10),
         openness   |-> Mul(au.AU02 + au.AU05, 3, 10)
                        + Mul(metrics.facial_symmetry, 4, 10),
         originalty |-> Mul(asym, 4, 10) + Mul(au.AU12, 3, 10) + Mul(au.AU01, 3, 10),
         attention  |-> Mul(metrics.eye_openness, 3, 10) + Mul(asym, 3, 10)
                        + Mul(au.AU04, 4, 10)]

\* one iteration of the row loop of calculate_section3 (no make_score here)
row3(data, k) ==
    IF MeanRaises(data, AUList3)
    THEN [done |-> FALSE, k |-> k,
          append |-> [ideation |-> <<>>, openness |-> <<>>, originalty |-> <<>>,
                      attention |-> <<>>]]
    ELSE LET r == raw_scores3(data)
         IN  [done |-> TRUE, k |-> k, au |-> au_values3(data), raw |-> r,
              append |-> [ideation |-> <<r.ideation>>, openness |-> <<r.openness>>,
                          originalty |-> <<r.originalty>>,
                          attention |-> <<r.attention>>]]

----------------------------------------------------------------------------
(* Section 4: stress_resilience.py *)

AUList4 == {" AU04_r", " AU12_r", " AU15_r", " AU24_r"}

\* [min(val / 5.0, 1.0) for val in au_values] over the columns of `order`
\* that the row has
normalized_aus(data, order) ==
    LET present == PresentCols(data, order)
    IN  [j \in 1..Len(present) |-> Min2(data[present[j]] \div 5, SCALE)]

calculate_forehead_furrows_openface(data) ==
    LET n == normalized_aus(data, <<" AU01_r", " AU02_r", " AU04_r">>)
    IN  IF n = <<>>
        THEN P(1, 2)
        ELSE IF Len(n) = 3
        THEN Mul(n[3], 6, 10) + Mul(n[1], 2, 10) + Mul(n[2], 2, 10)
        ELSE SumSeq(n) \div Len(n)

\* the fallback names carry no leading space in the source
calculate_lip_compression_openface(data) ==
    LET primary  == normalized_aus(data, <<" AU23_r", " AU24_r", " AU28_r">>)
        fallback == normalized_aus(data, <<"AU14_r", "AU15_r", "AU17_r", "AU20_r">>)
        n        == IF primary # <<>> THEN primary ELSE fallback
    IN  IF n = <<>> THEN P(1, 2) ELSE SumSeq(n) \div Len(n)

\* StressResilienceAnalyzer.process_openface_data
process_openface_data4(data) ==
    IF DOMAIN data = {}
    THEN [error |-> "No data provided"]
    ELSE [forehead_furrows |-> calculate_forehead_furrows_openface(data),
          lip_compression  |-> calculate_lip_compression_openface(data)]

au_values4(data) ==
    [AU04 |-> Normalized(data, " AU04_r"),
     AU12 |-> Normalized(data, " AU12_r"),
     AU15 |-> Normalized(data, " AU15_r"),
     AU24 |-> Normalized(data, " AU24_r")]

\* emotional of one row
emotional(data) ==
    LET metrics == process_openface_data4(data)
        au      == au_values4(data)
    IN  Mul(SCALE - metrics.forehead_furrows, 5, 10) + Mul(SCALE - au.AU04, 3, 10)
        + Mul(SCALE - au.AU15, 2, 10)

\* one iteration of the row loop of calculate_section4: emotional is appended,
\* then the resilience formula reads the name stress, which nothing binds:
\* NameError, caught by the loop's except, and the row ends there
row4(data, k) ==
    IF "error" \in DOMAIN process_openface_data4(data) \/ MeanRaises(data, AUList4)
    THEN [done |-> FALSE, k |-> k,
          append |-> [emotional_regulation |-> <<>>, resilience_score |-> <<>>]]
    ELSE [done |-> FALSE, k |-> k, au |-> au_values4(data),
          raw |-> [emotional_regulation |-> emotional(data)],
          append |-> [emotional_regulation |-> <<emotional(data)>>,
                      resilience_score |-> <<>>]]

----------------------------------------------------------------------------
(* Final aggregation of a scorer *)

\* np.argmax of one list: the index (1-based here) of the first maximum,
\* found by a scan that moves only to a strictly greater value
RECURSIVE argmax_scan(_, _, _)
argmax_scan(s, best, j) ==
    IF j > Len(s) THEN best
    ELSE argmax_scan(s, IF s[j] > s[best] THEN j ELSE best, j + 1)

argmax_last(s) == CHOOSE j \in 1..Len(s) :
    (\A m \in 1..Len(s) : s[m] <= s[j]) /\ (\A m \in (j + 1)..Len(s) : s[m] < s[j])

argmax(s) == argmax_scan(s, 1, 2)

\* np.argmax(lists, axis=1) raises for lists of unequal length (no rectangular
\* array) and for empty lists (argmax of an empty sequence)
argmax_raises(lists) ==
    \/ \E a, b \in DOMAIN lists : Len(lists[a]) # Len(lists[b])
    \/ \E a \in DOMAIN lists : lists[a] = <<>>

\* n / d rounded to the nearest integer, ties to even (the rounding of the
\* format specification .1f)
RoundHalfEven(n, d) ==
    LET q == n \div d
        r == n % d
    IN  IF 2 * r < d THEN q
        ELSE IF 2 * r > d THEN q + 1
        ELSE IF q % 2 = 0 THEN q ELSE q + 1

balance_of_maximum(lst) == RoundHalfEven(lst[argmax(lst)] * 1000, SCALE)

\* f"{np.mean(lst)*100:.1f}%", as the number of tenths of a percent
balance(lst) == RoundHalfEven(SumSeq(lst) * 1000, Len(lst) * SCALE)

Scores(lists) ==
    [kind |-> "scores",
     scores |-> [n \in DOMAIN lists |->
                    [balance |-> balance(lists[n]), top_image |-> argmax(lists[n]) - 1]]]

Error(msg) == [kind |-> "error", error |-> msg]

aggregate1_unguarded(lists) ==
    IF argmax_raises(lists) THEN [kind |-> "raised"] ELSE Scores(lists)

\* lines 174-197 of relationship_empathy.py
aggregate1(lists) ==
    IF argmax_raises(lists)
    THEN Error("Failed to calculate final metrics")
    ELSE Scores(lists)

\* lines 128-156 of work_DNA_focus.py
aggregate2(lists) ==
    IF lists.Persistant = <<>>
    THEN Error("Could not process any images")
    ELSE IF argmax_raises(lists)
    THEN Error("Failed to calculate final metrics")
    ELSE Scores(lists)

\* lines 143-157 of creativity_pulse.py
aggregate3(lists) ==
    IF lists.ideation = <<>>
    THEN Error("No valid data could be processed.")
    ELSE IF argmax_raises(lists)
    THEN Error("Error calculating section 3")
    ELSE Scores(lists)

aggregate4_unguarded(lists) ==
    IF argmax_raises(lists) THEN [kind |-> "raised"] ELSE Scores(lists)

\* lines 163-171 of stress_resilience.py
aggregate4(lists) ==
    IF argmax_raises(lists)
    THEN Error("Failed to calculate final metrics")
    ELSE Scores(lists)

----------------------------------------------------------------------------
(* Measurement tables *)

MaxRows == 2

\* an intensity, a gaze component or a pixel coordinate given in tenths
Tenths(t) == (t * SCALE) \div 10

\* the frames the tables are built from: AU intensities and gaze components
\* in tenths, pose cells in units of PI/12 rad, landmarks in pixels
Frames ==
    << \* a neutral face looking at the camera
       [au |-> [c \in AUCols |-> 0], gaze |-> 0, rx |-> 0, ry |-> 0,
        xs |-> <<0, 1, 3, 4>>, ys |-> <<5, 5, 5, 5>>],
       \* a smile: AU06_r = AU12_r = 2.5
       [au |-> [c \in AUCols |-> CASE c \in {" AU06_r", " AU12_r"} -> 25
                                   [] c = " AU01_r" -> 5
                                   [] OTHER -> 0],
        gaze |-> 1, rx |-> 0, ry |-> 0,
        xs |-> <<0, 1, 3, 4>>, ys |-> <<5, 5, 5, 5>>],
       \* every action unit at full intensity, head turned and raised
       [au |-> [c \in AUCols |-> 50], gaze |-> 5, rx |-> 1, ry |-> 3,
        xs |-> <<0, 1, 3, 6>>, ys |-> <<5, 5, 5, 6>>],
       \* looking away, AU12_r = 2.0: openness of section 1 is 0.20
       [au |-> [c \in AUCols |-> IF c = " AU12_r" THEN 20 ELSE 0],
        gaze |-> 5, rx |-> 6, ry |-> 0,
        xs |-> <<0, 1, 3, 4>>, ys |-> <<5, 5, 5, 5>>],
       \* looking away, AU12_r = 2.5, AU06_r = 1.0: openness of section 1 is 0.31
       [au |-> [c \in AUCols |-> CASE c = " AU12_r" -> 25
                                   [] c = " AU06_r" -> 10
                                   [] OTHER -> 0],
        gaze |-> 5, rx |-> -1, ry |-> 0,
        xs |-> <<0, 2, 3, 4>>, ys |-> <<5, 5, 5, 5>> ] >>

Index(order, c) == CHOOSE j \in 1..Len(order) : order[j] = c

\* the cell of column c in frame f
Cell(f, c) ==
    CASE c \in AUCols         -> Tenths(f.au[c])
      [] c \in GazeCols       -> Tenths(f.gaze)
      [] c = " pose_Rx"       -> f.rx
      [] c = " pose_Ry"       -> f.ry
      [] c \in Range(XOrder)  -> f.xs[Index(XOrder, c)] * SCALE
      [] OTHER                -> f.ys[Index(YOrder, c)] * SCALE

\* the column sets of the tables: a full OpenFace table, a table with the two
\* smile intensities only, one without any intensity column (and an odd
\* number of landmarks), one with brow intensities and pose only, one whose
\* only intensity column is one that section 2 does not read
Schemas ==
    { AllCols,
      {" AU06_r", " AU12_r"},
      GazeCols \cup PoseCols \cup {" x_0", " x_1", " x_2", " y_0", " y_1", " y_2"},
      {" AU01_r", " AU02_r", " AU05_r", " AU25_r", " AU26_r"} \cup PoseCols,
      {" AU12_r"} \cup PoseCols }

RowsOf(columns) == {[c \in columns |-> Cell(Frames[f], c)] : f \in 1..Len(Frames)}

TablesOf(columns) == UNION {[1..n -> RowsOf(columns)] : n \in 0..MaxRows}

----------------------------------------------------------------------------
(* The /analyze request: analyze_video of app.py *)

Sections == 1..4

ScoreNames(s) ==
    CASE s = 1 -> {"trust", "openness", "Empathy", "ConflictAvoid"}
      [] s = 2 -> {"Persistant", "Focus", "Structure", "Risk"}
      [] s = 3 -> {"ideation", "openness", "originalty", "attention"}
      [] OTHER -> {"emotional_regulation", "resilience_score"}

None == [kind |-> "none"]

Raised(where) == [kind |-> "raised", at |-> where]

\* an empty result folder
NoFiles == [dirs |-> {}, tables |-> {}]

\* one request at a time: the event loop is not contended
NoLoop == [shared |-> FALSE, holder |-> {}]

Start ==
    /\ reqs = <<>>
    /\ fs = NoFiles
    /\ loop = NoLoop
    /\ pc = "start"
    /\ calls = 0
    /\ sec = 0
    /\ i = 0
    /\ series = <<>>
    /\ au_values = <<>>
    /\ raw = <<>>
    /\ results = <<>>
    /\ outcome = None
    /\ run = 1
    /\ first = <<>>

NoCall == [section |-> 0, score |-> 0, r1 |-> 0, r2 |-> 0, result |-> 0]

Init ==
    /\ Start
    /\ cols \in Schemas
    /\ dtype \in {"float64", "object"}
    /\ table \in TablesOf(cols)
    /\ rng \in Streams
    /\ call = NoCall

\* lines 48-68: the folders are made and the uploads saved
ReceiveFiles ==
    /\ pc = "start"
    /\ pc' = "openface"
    /\ UNCHANGED <<reqs, fs, loop,
                   cols, dtype, table, rng, calls, sec, i, series, au_values, raw,
                   results, outcome, run, first, call>>

\* line 76: subprocess.run(command, check=True) returns, or raises
\* CalledProcessError, which leaves through the finally block
RunOpenFace ==
    /\ pc = "openface"
    /\ \E ok \in BOOLEAN :
          IF ok THEN pc' = "load" /\ outcome' = outcome
                ELSE pc' = "cleanup" /\ outcome' = Raised("openface")
    /\ UNCHANGED <<reqs, fs, loop,
                   cols, dtype, table, rng, calls, sec, i, series, au_values, raw,
                   results, run, first, call>>

LoadTableAndGoOn ==
    /\ pc = "load"
    /\ \E readable \in BOOLEAN :
          /\ pc' = "enter"
          /\ outcome' = IF readable THEN outcome ELSE Raised("read_csv")
    /\ UNCHANGED <<reqs, fs, loop,
                   cols, dtype, table, rng, calls, sec, i, series, au_values, raw,
                   results, run, first, call>>

\* lines 79-80: pd.read_csv(csv_files) reads the table, or raises when the
\* file is missing or cannot be parsed
LoadTable ==
    /\ pc = "load"
    /\ \E readable \in BOOLEAN :
          IF readable THEN pc' = "enter" /\ outcome' = outcome
                      ELSE pc' = "cleanup" /\ outcome' = Raised("read_csv")
    /\ UNCHANGED <<reqs, fs, loop,
                   cols, dtype, table, rng, calls, sec, i, series, au_values, raw,
                   results, run, first, call>>

\* the head of calculate_sectionN: fresh lists, pd.read_csv of the same file
EnterSection ==
    /\ pc = "enter"
    /\ sec < 4
    /\ sec' = sec + 1
    /\ series' = [n \in ScoreNames(sec + 1) |-> <<>>]
    /\ i' = 0
    /\ pc' = "rows"
    /\ UNCHANGED <<reqs, fs, loop,
                   cols, dtype, table, rng, calls, au_values, raw, results, outcome,
                   run, first, call>>

\* the loop body of the scorer s on the next row
RowStep(s, out) ==
    /\ pc = "rows"
    /\ sec = s
    /\ i < Len(table)
    /\ series' = [n \in DOMAIN series |-> series[n] \o out.append[n]]
    /\ calls' = out.k
    /\ au_values' = IF "au" \in DOMAIN out THEN out.au ELSE au_values
    /\ raw' = IF "raw" \in DOMAIN out THEN out.raw ELSE raw
    /\ i' = i + 1
    /\ UNCHANGED <<reqs, fs, loop,
                   pc, cols, dtype, table, rng, sec, results, outcome, run, first, call>>

calculate_section1_row == i < Len(table) /\ RowStep(1, row1(table[i + 1], calls))

calculate_section2_row == i < Len(table) /\ RowStep(2, row2(table[i + 1], calls))

calculate_section3_row == i < Len(table) /\ RowStep(3, row3(table[i + 1], calls))

calculate_section4_row == i < Len(table) /\ RowStep(4, row4(table[i + 1], calls))

\* the scorer s returns `result` to analyze_video; an exception that left the
\* scorer would leave analyze_video through the finally block
Return(s, result) ==
    /\ pc = "rows"
    /\ sec = s
    /\ i = Len(table)
    /\ IF result.kind = "raised"
       THEN /\ pc' = "cleanup"
            /\ outcome' = Raised("section")
            /\ results' = results
       ELSE /\ pc' = IF s = 4 THEN "respond" ELSE "enter"
            /\ outcome' = outcome
            /\ results' = Append(results, result)
    /\ UNCHANGED <<reqs, fs, loop,
                   cols, dtype, table, rng, calls, sec, i, series, au_values, raw,
                   run, first, call>>

calculate_section1_return == sec = 1 /\ Return(1, aggregate1(series))

calculate_section2_return == sec = 2 /\ Return(2, aggregate2(series))

calculate_section3_return == sec = 3 /\ Return(3, aggregate3(series))

calculate_section4_return == sec = 4 /\ Return(4, aggregate4(series))

\* lines 86-91: the four results are returned together
Respond ==
    /\ pc = "respond"
    /\ outcome' = [kind |-> "response", sections |-> results]
    /\ pc' = "cleanup"
    /\ UNCHANGED <<reqs, fs, loop,
                   cols, dtype, table, rng, calls, sec, i, series, au_values, raw,
                   results, run, first, call>>

\* lines 93-98: the finally block
Cleanup ==
    /\ pc = "cleanup"
    /\ pc' = "done"
    /\ UNCHANGED <<reqs, fs, loop,
                   cols, dtype, table, rng, calls, sec, i, series, au_values, raw,
                   results, outcome, run, first, call>>

\* the same table is scored a second time (a second request on the same
\* images); the random stream goes on where the first scoring left it
Repeat ==
    /\ pc = "done"
    /\ run = 1
    /\ outcome.kind = "response"
    /\ first' = results
    /\ run' = 2
    /\ results' = <<>>
    /\ outcome' = None
    /\ sec' = 0
    /\ i' = 0
    /\ pc' = "enter"
    /\ UNCHANGED <<reqs, fs, loop,
                   cols, dtype, table, rng, calls, series, au_values, raw, call>>

Next ==
    \/ ReceiveFiles
    \/ RunOpenFace
    \/ LoadTable
    \/ EnterSection
    \/ calculate_section1_row
    \/ calculate_section2_row
    \/ calculate_section3_row
    \/ calculate_section4_row
    \/ calculate_section1_return
    \/ calculate_section2_return
    \/ calculate_section3_return
    \/ calculate_section4_return
    \/ Respond
    \/ Cleanup
    \/ Repeat

Spec == Init /\ [][Next]_vars

----------------------------------------------------------------------------
(* Single rows over a wide range of cell values.  Every table is one row;   *)
(* the columns are those one scorer reads, each cell drawn on its own.      *)

WideSmile == {" AU06_r", " AU12_r"}

WideGaze == {" AU01_r", " AU06_r", " AU12_r", " AU45_r"} \cup GazeCols

WidePose == AUList2 \cup {" AU25_r", " AU26_r"} \cup PoseCols

WideSchemas == {WideSmile, WideGaze, WidePose}

\* intensities from 0 to 5, and one above the range OpenFace documents; pose
\* angles up to half a turn either way, and one pitch of three quarter turns
WideRows(columns) ==
    CASE columns = WideSmile ->
            {[c \in columns |-> Tenths(au[c])] :
                au \in [WideSmile -> {0, 5, 25, 35, 50, 60}]}
      [] columns = WideGaze ->
            {[c \in columns |->
                 CASE c \in {" gaze_0_x", " gaze_1_x"} -> Tenths(gx[c])
                   [] c \in {" gaze_0_y", " gaze_1_y"} -> Tenths(1)
                   [] OTHER -> Tenths(au[c])] :
                au \in [columns \ GazeCols -> {0, 20, 50}],
                gx \in [{" gaze_0_x", " gaze_1_x"} -> {-5, 1, 3}]}
      [] OTHER ->
            {[c \in columns |->
                 CASE c = " pose_Rx" -> rx
                   [] c = " pose_Ry" -> ry
                   [] OTHER -> Tenths(au[c])] :
                au \in [columns \ PoseCols -> {0, 50}],
                rx \in {-12, -1, 0, 1, 6, 12, 18},
                ry \in {-12, 0, 3, 12}}

InitWide ==
    /\ Start
    /\ cols \in WideSchemas
    /\ dtype = "float64"
    /\ table \in {<<r>> : r \in WideRows(cols)}
    /\ rng \in Streams
    /\ call = NoCall

SpecWide == InitWide /\ [][Next]_vars

----------------------------------------------------------------------------
(* make_score on its own: one call with a given argument and given draws *)

\* arguments from -0.50 to 1.50 in steps of 0.05, and the two thresholds
ScoreGrid == {P(n, 100) : n \in {5 * m - 50 : m \in 0..40} \cup {30, 93}}

\* draws of random.random()
DrawGrid == {0, P(1, 4), P(1, 2), P(3, 4), P(95, 100)}

InitSmooth ==
    /\ Start
    /\ cols = {}
    /\ dtype = "float64"
    /\ table = <<>>
    /\ rng = "zero"
    /\ \E x \in ScoreGrid, d1 \in DrawGrid, d2 \in DrawGrid :
          call = [section |-> 0, score |-> x, r1 |-> d1, r2 |-> d2, result |-> 0]

\* make_score(score) of relationship_empathy.py
CallMakeScore1 ==
    /\ call.section = 0
    /\ call' = [call EXCEPT !.section = 1,
                            !.result = make_score1(call.score, call.r1, call.r2)]
    /\ UNCHANGED <<reqs, fs, loop,
                   pc, cols, dtype, table, rng, calls, sec, i, series, au_values,
                   raw, results, outcome, run, first>>

\* make_score(score) of work_DNA_focus.py
CallMakeScore2 ==
    /\ call.section = 0
    /\ call' = [call EXCEPT !.section = 2,
                            !.result = make_score2(call.score, call.r1, call.r2)]
    /\ UNCHANGED <<reqs, fs, loop,
                   pc, cols, dtype, table, rng, calls, sec, i, series, au_values,
                   raw, results, outcome, run, first>>

NextSmooth == CallMakeScore1 \/ CallMakeScore2

SpecSmooth == InitSmooth /\ [][NextSmooth]_vars

----------------------------------------------------------------------------
(* make_score on two rows' values: two calls with the draws pinned to 0 *)

\* values in [0, 1], closer together around the two thresholds
PairGrid ==
    {P(n, 1000) : n \in {0, 100, 200, 290, 300, 310, 320, 330, 340, 500, 900,
                         920, 925, 930, 940, 1000}}

InitPair ==
    /\ Start
    /\ cols = {}
    /\ dtype = "float64"
    /\ table = <<>>
    /\ rng = "zero"
    /\ \E x \in PairGrid, y \in PairGrid :
          call = [section |-> 0, a |-> x, b |-> y, fa |-> 0, fb |-> 0]

\* make_score(a) and make_score(b) of relationship_empathy.py
PairMakeScore1 ==
    /\ call.section = 0
    /\ call' = [call EXCEPT !.section = 1,
                            !.fa = make_score1(call.a, 0, 0),
                            !.fb = make_score1(call.b, 0, 0)]
    /\ UNCHANGED <<reqs, fs, loop,
                   pc, cols, dtype, table, rng, calls, sec, i, series, au_values,
                   raw, results, outcome, run, first>>

\* make_score(a) and make_score(b) of work_DNA_focus.py
PairMakeScore2 ==
    /\ call.section = 0
    /\ call' = [call EXCEPT !.section = 2,
                            !.fa = make_score2(call.a, 0, 0),
                            !.fb = make_score2(call.b, 0, 0)]
    /\ UNCHANGED <<reqs, fs, loop,
                   pc, cols, dtype, table, rng, calls, sec, i, series, au_values,
                   raw, results, outcome, run, first>>

NextPair == PairMakeScore1 \/ PairMakeScore2

SpecPair == InitPair /\ [][NextPair]_vars

----------------------------------------------------------------------------
(* calculate_facial_symmetry on its own: one call on a row of landmarks *)

\* landmark coordinates, in pixels: 0, 0.02, 0.05 and 1
CoordinateGrid == {0, P(2, 100), P(5, 100), SCALE}

\* rows with the first nx columns of XOrder and the first ny of YOrder
LandmarkRows ==
    UNION {[Range(SubSeq(XOrder, 1, nx)) \cup Range(SubSeq(YOrder, 1, ny))
               -> CoordinateGrid] :
           nx \in 0..Len(XOrder), ny \in 0..Len(YOrder)}

\* the pairs the loop of calculate_facial_symmetry has appended a score for
\* when it ends (0 when the function has returned or raised before the loop)
pairs_scored(row) ==
    LET x_cols == PresentCols(row, XOrder)
        y_cols == PresentCols(row, YOrder)
    IN  IF x_cols = <<>> \/ y_cols = <<>> \/ Len(y_cols) < Len(x_cols)
        THEN 0
        ELSE Len(asymmetry_scores(row, x_cols, y_cols, 0, 0))

InitSymmetry ==
    /\ Start
    /\ cols = {}
    /\ dtype = "float64"
    /\ table = <<>>
    /\ rng = "zero"
    /\ \E r \in LandmarkRows :
          call = [section |-> 0, row |-> r, result |-> 0, pairs |-> 0]

\* analyzer.calculate_facial_symmetry(row)
CallFacialSymmetry ==
    /\ call.section = 0
    /\ call' = [call EXCEPT !.section = 3,
                            !.result = calculate_facial_symmetry(call.row),
                            !.pairs = pairs_scored(call.row)]
    /\ UNCHANGED <<reqs, fs, loop,
                   pc, cols, dtype, table, rng, calls, sec, i, series, au_values,
                   raw, results, outcome, run, first>>

NextSymmetry == CallFacialSymmetry

SpecSymmetry == InitSymmetry /\ [][NextSymmetry]_vars

----------------------------------------------------------------------------
(* Two /analyze requests at once.  Each request has its own upload folder    *)
(* and its own directory results/<file_id>; the folder results is shared.    *)
(* With one event loop a request gives the loop up only at the await of its  *)
(* upload loop; with one worker process per request any two steps of         *)
(* different requests can follow each other.  What the scorers compute is    *)
(* left out here: a section step only reads the table file.                  *)

Requests == 1..2

MaxUploads == 2

\* the variables of the single request, which stay as they are here
single == <<pc, cols, dtype, table, rng, calls, sec, i, series, au_values, raw,
            results, outcome, run, first, call>>

InitConcurrent ==
    /\ pc = "start"
    /\ calls = 0
    /\ sec = 0
    /\ i = 0
    /\ series = <<>>
    /\ au_values = <<>>
    /\ raw = <<>>
    /\ results = <<>>
    /\ outcome = None
    /\ run = 1
    /\ first = <<>>
    /\ cols = {}
    /\ dtype = "float64"
    /\ table = <<>>
    /\ rng = "zero"
    /\ call = NoCall
    /\ reqs = [r \in Requests |-> [pc |-> "start", saved |-> 0, section |-> 0,
                                    outcome |-> None]]
    /\ fs = NoFiles
    /\ \E shared \in BOOLEAN : loop = [shared |-> shared, holder |-> {}]

\* request r may take a step: no other request holds a shared loop
Turn(r) == ~loop.shared \/ loop.holder \subseteq {r}

\* the loop after a step of r that ends at an await or at the end of r
Released == [loop EXCEPT !.holder = {}]

\* the loop after a step of r that is followed by more code of r
Held(r) == [loop EXCEPT !.holder = IF loop.shared THEN {r} ELSE {}]

\* lines 48-53: the folders of the request are made; the handler then runs
\* to the first await of the upload loop
ReqMakeFolders(r) ==
    /\ reqs[r].pc = "start"
    /\ Turn(r)
    /\ fs' = [fs EXCEPT !.dirs = @ \cup {r}]
    /\ reqs' = [reqs EXCEPT ![r].pc = "upload"]
    /\ loop' = Released
    /\ UNCHANGED single

\* lines 57-68: one upload is read and saved; await file.read() lets other
\* requests run
ReqSaveUpload(r) ==
    /\ reqs[r].pc = "upload"
    /\ reqs[r].saved < MaxUploads
    /\ Turn(r)
    /\ reqs' = [reqs EXCEPT ![r].saved = @ + 1]
    /\ loop' = Released
    /\ UNCHANGED <<fs, single>>

\* lines 70-76: OpenFace runs on the upload folder and writes the table into
\* the directory of the request (making the directory when it is gone), or
\* fails
ReqRunOpenFace(r) ==
    /\ reqs[r].pc = "upload"
    /\ reqs[r].saved >= 1
    /\ Turn(r)
    /\ \E ok \in BOOLEAN :
          IF ok
          THEN /\ fs' = [dirs |-> fs.dirs \cup {r}, tables |-> fs.tables \cup {r}]
               /\ reqs' = [reqs EXCEPT ![r].pc = "load"]
          ELSE /\ fs' = fs
               /\ reqs' = [reqs EXCEPT ![r].pc = "cleanup",
                                       ![r].outcome = Raised("openface")]
    /\ loop' = Held(r)
    /\ UNCHANGED single

\* lines 79-80: pd.read_csv of the table of the request
ReqLoadTable(r) ==
    /\ reqs[r].pc = "load"
    /\ Turn(r)
    /\ reqs' = IF r \in fs.tables
               THEN [reqs EXCEPT ![r].pc = "section", ![r].section = 1]
               ELSE [reqs EXCEPT ![r].pc = "cleanup",
                                 ![r].outcome = Raised("read_csv")]
    /\ loop' = Held(r)
    /\ UNCHANGED <<fs, single>>

\* lines 81-84: the next scorer; its pd.read_csv of the table stands outside
\* every try of the scorer
ReqSection(r) ==
    /\ reqs[r].pc = "section"
    /\ Turn(r)
    /\ reqs' = IF r \in fs.tables
               THEN IF reqs[r].section < 4
                    THEN [reqs EXCEPT ![r].section = @ + 1]
                    ELSE [reqs EXCEPT ![r].pc = "respond"]
               ELSE [reqs EXCEPT ![r].pc = "cleanup",
                                 ![r].outcome = Raised("section")]
    /\ loop' = Held(r)
    /\ UNCHANGED <<fs, single>>

\* lines 86-91
ReqRespond(r) ==
    /\ reqs[r].pc = "respond"
    /\ Turn(r)
    /\ reqs' = [reqs EXCEPT ![r].pc = "cleanup", ![r].outcome = [kind |-> "response"]]
    /\ loop' = Held(r)
    /\ UNCHANGED <<fs, single>>

\* lines 93-98: shutil.rmtree of the request's upload folder and of the whole
\* folder results
ReqCleanup(r) ==
    /\ reqs[r].pc = "cleanup"
    /\ Turn(r)
    /\ fs' = NoFiles
    /\ reqs' = [reqs EXCEPT ![r].pc = "done"]
    /\ loop' = Released
    /\ UNCHANGED single

NextConcurrent ==
    \E r \in Requests :
        \/ ReqMakeFolders(r)
        \/ ReqSaveUpload(r)
        \/ ReqRunOpenFace(r)
        \/ ReqLoadTable(r)
        \/ ReqSection(r)
        \/ ReqRespond(r)
        \/ ReqCleanup(r)

SpecConcurrent == InitConcurrent /\ [][NextConcurrent]_vars

----------------------------------------------------------------------------
(* A scorer taken on its own: calculate_sectionN(csv) called on the table    *)
(* with the stream at position k, from its first line to its return.         *)

row(s, data, k) ==
    CASE s = 1 -> row1(data, k)
      [] s = 2 -> row2(data, k)
      [] s = 3 -> row3(data, k)
      [] OTHER -> row4(data, k)

aggregate(s, lists) ==
    CASE s = 1 -> aggregate1(lists)
      [] s = 2 -> aggregate2(lists)
      [] s = 3 -> aggregate3(lists)
      [] OTHER -> aggregate4(lists)

\* the lists after the loop has consumed the rows j, j + 1, ... of the table
RECURSIVE row_loop(_, _, _, _)
row_loop(s, lists, j, k) ==
    IF j > Len(table) THEN lists
    ELSE LET out == row(s, table[j], k)
         IN  row_loop(s, [n \in DOMAIN lists |-> lists[n] \o out.append[n]],
                      j + 1, out.k)

calculate_section(s, k) ==
    aggregate(s, row_loop(s, [n \in ScoreNames(s) |-> <<>>], 1, k))

\* the scores of a row before make_score
raw_scores(s, data) ==
    CASE s = 1 -> raw_scores1(data)
      [] s = 2 -> raw_scores2(data)
      [] OTHER -> raw_scores3(data)

\* the columns whose cells the AU loop of scorer s takes the mean of
AUList(s) ==
    CASE s = 1 -> AUList1
      [] s = 2 -> AUList2
      [] s = 3 -> AUList3
      [] OTHER -> AUList4

----------------------------------------------------------------------------
(* Properties *)

\* position j holds the first maximum of the list lst
FirstMaximum(lst, j) ==
    /\ j \in 1..Len(lst)
    /\ \A m \in 1..Len(lst) : lst[m] <= lst[j]
    /\ \A m \in 1..(j - 1) : lst[m] < lst[j]

\* the running scorer has just returned scores
Reported == sec \in Sections /\ Len(results) = sec /\ results[sec].kind = "scores"

\* C1, as stated: when a scorer reports scores, the top_image of every score
\* is the 0-based table position of the first row whose value before smoothing
\* is maximal.
TopImageIsFirstMaximumOfRawValues ==
    Reported =>
        \A n \in ScoreNames(sec) :
            FirstMaximum([j \in 1..Len(table) |-> raw_scores(sec, table[j])[n]],
                         results[sec].scores[n].top_image + 1)

\* C1, amended: when a scorer reports scores, every list of the scorer holds
\* one value per table row, and the top_image of every score is the 0-based
\* position of the first row whose stored value (after make_score in sections
\* 1 and 2) is maximal.
TopImageIsFirstMaximumOfSeries ==
    Reported =>
        \A n \in ScoreNames(sec) :
            /\ Len(series[n]) = Len(table)
            /\ FirstMaximum(series[n], results[sec].scores[n].top_image + 1)

\* C1, witness: section 1 reports the first row as the top_image of openness
\* although the second row has the greater value before smoothing.
TopImageMovedBySmoothing ==
    /\ Reported
    /\ sec = 1
    /\ Len(table) = 2
    /\ results[1].scores["openness"].top_image = 0
    /\ raw_scores1(table[1]).openness < raw_scores1(table[2]).openness
    /\ series["openness"][1] > series["openness"][2]

\* C2: for a table without rows every scorer returns an error payload, no
\* scorer lets an exception reach analyze_video, and the request gets to its
\* return statement with four payloads.
EmptyTableGivesFourErrors ==
    table = <<>> =>
        /\ outcome # Raised("section")
        /\ \A s \in 1..Len(results) : results[s].kind = "error"
        /\ pc = "respond" => Len(results) = 4
        /\ pc = "rows" => i = 0 /\ \A n \in DOMAIN series : series[n] = <<>>

\* C2, witness: the four scorers have returned on a table without rows
EmptyTableScored == table = <<>> /\ pc = "respond" /\ Len(results) = 4

\* scorer s fails on the table: no row, every row raising in the AU loop, or
\* (section 4) the final aggregation raising
Fails(s) ==
    \/ table = <<>>
    \/ \A j \in 1..Len(table) : MeanRaises(table[j], AUList(s))
    \/ s = 4

\* C3: once the table is loaded the request ends with a response of four
\* payloads; a scorer's payload is an error exactly when that scorer fails,
\* and every payload is what the scorer returns when called on its own,
\* whatever the other scorers did (compared for the streams whose draws do
\* not depend on the position in the stream).
SectionFailureStaysInItsSection ==
    /\ outcome # Raised("section")
    /\ pc \in {"cleanup", "done"} =>
           \/ outcome \in {Raised("openface"), Raised("read_csv")}
           \/ outcome.kind = "response" /\ Len(outcome.sections) = 4
    /\ pc = "respond" => Len(results) = 4
    /\ \A s \in 1..Len(results) :
           /\ results[s].kind \in {"error", "scores"}
           /\ results[s].kind = "error" <=> Fails(s)
           /\ rng # "alt" => results[s] = calculate_section(s, 0)

\* C3, witness: a response in which sections 1, 3 and 4 are errors and
\* section 2 holds scores
OneSectionSurvives ==
    /\ outcome.kind = "response"
    /\ outcome.sections[1].kind = "error"
    /\ outcome.sections[2].kind = "scores"
    /\ outcome.sections[3].kind = "error"
    /\ outcome.sections[4].kind = "error"

\* C4, as stated: after any prefix of the table all lists of the running
\* scorer have the same length (a row that raised has left no value in any).
SeriesHaveEqualLength ==
    \A a, b \in DOMAIN series : Len(series[a]) = Len(series[b])

\* every intensity cell of the table lies in [0, 5]
IntensitiesInRange ==
    \A j \in 1..Len(table) :
        \A c \in DOMAIN table[j] \cap AUCols :
            0 <= table[j][c] /\ table[j][c] <= 5 * SCALE

\* every pose cell of the table is an angle of at most half a turn
PoseWithinHalfTurn ==
    \A j \in 1..Len(table) :
        \A c \in DOMAIN table[j] \cap PoseCols :
            Abs(Degrees(table[j][c])) <= 180 * SCALE

\* every value in the lists of the running scorer lies in [0, 1]
StoredInUnitInterval ==
    \A n \in DOMAIN series :
        \A j \in 1..Len(series[n]) : 0 <= series[n][j] /\ series[n][j] <= SCALE

\* C5, as stated: in sections 1 and 2 every stored value lies in [0, 1] when
\* the intensities of the table lie in [0, 5], whatever the pose angles, the
\* gaze components and the draws.
StoredScoresInUnitInterval ==
    (sec \in {1, 2} /\ IntensitiesInRange) => StoredInUnitInterval

\* C5, amended: in sections 1 and 2 every stored value lies in [0, 1] when
\* the intensities of the table lie in [0, 5] and its pose angles are at most
\* half a turn (180 degrees) either way, whatever the gaze components and the
\* draws.
StoredScoresInUnitIntervalWithinHalfTurn ==
    (sec \in {1, 2} /\ IntensitiesInRange /\ PoseWithinHalfTurn)
        => StoredInUnitInterval

\* C5, witness: a row with intensities in [0, 5] and pose angles within half
\* a turn whose Persistant score is negative before make_score and is stored
\* as a value in [0, 1]
NegativeScoreSmoothedIntoRange ==
    /\ sec = 2
    /\ i = 1
    /\ IntensitiesInRange
    /\ PoseWithinHalfTurn
    /\ "Persistant" \in DOMAIN raw
    /\ raw.Persistant < 0
    /\ Len(series["Persistant"]) = 1
    /\ series["Persistant"][1] >= 0

\* C6: for every draw, make_score of section 1 and of section 2 returns at
\* least 0.3 for the argument 0.3 and at most 0.93 for the argument 0.93.
MakeScoreBoundarySafe ==
    call.section \in {1, 2} =>
        /\ call.score = P(3, 10) => call.result >= P(3, 10)
        /\ call.score = P(93, 100) => call.result <= P(93, 100)

\* C6, witness: make_score of section 2 called with 0.93 and a positive draw
\* returns less than 0.93
UpperBoundaryPulledDown ==
    /\ call.section = 2
    /\ call.score = P(93, 100)
    /\ call.r2 > 0
    /\ call.result < P(93, 100)

NormalizedIntensityAtMostOne ==
    \A au \in DOMAIN au_values : au_values[au] <= SCALE

\* the row of a one-row table that has the columns AU06_r and AU12_r only,
\* with intensities in [0, 5], has gone through the loop body of section 1
SmileOnlyRowScored ==
    /\ sec = 1
    /\ i = 1
    /\ Len(table) = 1
    /\ cols = {" AU06_r", " AU12_r"}
    /\ IntensitiesInRange
    /\ "trust" \in DOMAIN raw

\* min(value / 5.0, 1.0) of the cell of column c in the first row
Norm(c) == Min2(table[1][c] \div 5, SCALE)

\* C9: for a row that has only the columns AU06_r and AU12_r, the openness of
\* section 1 before make_score is 0.5 * AU12_norm + 0.3 * AU06_norm + 0.2.
OpennessOfSmileOnlyRow ==
    SmileOnlyRowScored =>
        raw.openness = Mul(Norm(" AU12_r"), 5, 10) + Mul(Norm(" AU06_r"), 3, 10)
                       + P(2, 10)

\* C9, witness: AU12_r = 5.0 and AU06_r = 0.5 give the openness 0.73
StrongSmileOpenness ==
    /\ SmileOnlyRowScored
    /\ table[1][" AU12_r"] = Tenths(50)
    /\ table[1][" AU06_r"] = Tenths(5)
    /\ raw.openness = P(73, 100)

\* C10: for a row that has only the columns AU06_r and AU12_r, the trust of
\* section 1 before make_score is 0.2 * (AU06_norm + AU12_norm) + 0.4 + 0.1;
\* when that value is strictly between 0.3 and 0.93 it is stored unchanged;
\* for AU06_r = AU12_r = 2.5 the stored value is 0.7.
TrustOfSmileOnlyRow ==
    SmileOnlyRowScored =>
        /\ raw.trust = Mul(Norm(" AU06_r") + Norm(" AU12_r"), 2, 10) + P(4, 10)
                       + P(1, 10)
        /\ (P(3, 10) < raw.trust /\ raw.trust < P(93, 100))
               => series["trust"] = <<raw.trust>>
        /\ (\A c \in cols : table[1][c] = Tenths(25))
               => series["trust"] = <<P(7, 10)>>

\* C10, witness: AU06_r = AU12_r = 2.5 and the stored trust is 0.7
HalfSmileTrust ==
    /\ SmileOnlyRowScored
    /\ table[1][" AU06_r"] = Tenths(25)
    /\ table[1][" AU12_r"] = Tenths(25)
    /\ series["trust"] = <<P(7, 10)>>

\* the landmark x columns of the row of the call
CallXCount == Cardinality(DOMAIN call.row \cap Range(XOrder))

\* C11: calculate_facial_symmetry returns a value in [0, 1] for every row,
\* whether the number of landmark columns is even or odd; every pair it
\* scores is made of two different landmarks, so it scores at most
\* count // 2 pairs, and exactly that many when the row has a y column for
\* every x column.
FacialSymmetryInUnitInterval ==
    call.section = 3 =>
        /\ 0 <= call.result /\ call.result <= SCALE
        /\ 2 * call.pairs <= CallXCount
        /\ (\A j \in 1..Len(XOrder) : XOrder[j] \in DOMAIN call.row
                                        => YOrder[j] \in DOMAIN call.row)
               => call.pairs = CallXCount \div 2

\* C11, witness: a row with three landmarks, one pair scored, and a symmetry
\* strictly between 0 and 1
OddLandmarkCountScored ==
    /\ call.section = 3
    /\ CallXCount = 3
    /\ call.pairs = 1
    /\ 0 < call.result
    /\ call.result < SCALE
    /\ call.result # P(1, 2)

\* C12, as stated: for a table of numeric rows with at least one row,
\* calculate_section4 returns scores under the keys emotional_regulation and
\* resilience_score, not an error payload, and the emotional_regulation
\* series holds for every row 0.5 * (1 - forehead_furrows) + 0.3 * (1 - AU04)
\* + 0.2 * (1 - AU15).
Section4ReportsScores ==
    (Len(results) = 4 /\ sec = 4 /\ Len(table) >= 1 /\ dtype = "float64") =>
        /\ series["emotional_regulation"]
             = [j \in 1..Len(table) |->
                  Mul(SCALE - calculate_forehead_furrows_openface(table[j]), 5, 10)
                  + Mul(SCALE - Normalized(table[j], " AU04_r"), 3, 10)
                  + Mul(SCALE - Normalized(table[j], " AU15_r"), 2, 10)]
        /\ results[4].kind = "scores"
        /\ DOMAIN results[4].scores = {"emotional_regulation", "resilience_score"}

\* C13: when the OpenFace run fails or the table cannot be read, the request
\* ends by raising: it goes to its cleanup without having called a scorer,
\* holds no section result, and never turns into a response.
WholeRequestFailureReturnsNoSections ==
    outcome.kind = "raised" =>
        /\ outcome.at \in {"openface", "read_csv"}
        /\ pc \in {"cleanup", "done"}
        /\ sec = 0
        /\ results = <<>>

\* C13, witness: the request has ended after read_csv raised
RequestEndedOnUnreadableTable ==
    /\ outcome = Raised("read_csv")
    /\ pc = "done"
    /\ results = <<>>

\* C14: when a scorer reports scores, the balance of every score is the
\* unweighted mean of the score's series as a percentage with one decimal:
\* the reported number of tenths of a percent is within half a tenth of
\* 100 * sum / length.
BalanceIsMeanPercentage ==
    Reported =>
        \A n \in ScoreNames(sec) :
            LET lst == series[n]
                b   == results[sec].scores[n].balance
            IN  /\ Len(lst) >= 1
                /\ 2 * Abs(b * Len(lst) * SCALE - SumSeq(lst) * 1000)
                       <= Len(lst) * SCALE

\* C14, witness: a score with two different values whose balance lies
\* strictly between their percentages
BalanceBetweenTwoRows ==
    /\ Reported
    /\ Len(table) = 2
    /\ \E n \in ScoreNames(sec) :
          /\ series[n][1] < series[n][2]
          /\ series[n][1] * 1000 < results[sec].scores[n].balance * SCALE
          /\ results[sec].scores[n].balance * SCALE < series[n][2] * 1000

\* C15, as stated: in section 3 the openness of a row is
\* 0.3 * (AU02_norm + AU05_norm) + 0.4 * facial_symmetry, AU05_norm being the
\* row's AU05 intensity divided by 5 when the column AU05_r is present.
CreativityOpennessReadsAU05 ==
    (sec = 3 /\ i >= 1 /\ "originalty" \in DOMAIN raw) =>
        raw.openness = Mul(Normalized(table[i], " AU02_r")
                           + Normalized(table[i], " AU05_r"), 3, 10)
                       + Mul(calculate_facial_symmetry(table[i]), 4, 10)

\* the range of make_score's argument: "low" up to 0.3, "high" from 0.93
Branch(x) ==
    IF x <= P(3, 10) THEN "low" ELSE IF x >= P(93, 100) THEN "high" ELSE "middle"

\* C16, as stated: with the draws pinned to 0, a <= b implies
\* make_score(a) <= make_score(b) for a, b in [0, 1].
SmoothingPreservesOrder ==
    (call.section \in {1, 2} /\ call.a <= call.b) => call.fa <= call.fb

\* C16, amended: with the draws pinned to 0, a <= b implies
\* make_score(a) <= make_score(b) when a and b lie in the same range (both at
\* most 0.3, both strictly between 0.3 and 0.93, or both at least 0.93);
\* across a threshold the order can turn over, by at most 0.03.
SmoothingPreservesOrderWithinRange ==
    (call.section \in {1, 2} /\ call.a <= call.b) =>
        /\ Branch(call.a) = Branch(call.b) => call.fa <= call.fb
        /\ call.fa - call.fb <= P(3, 100)

\* C16, witness: 0.3 is stored as 0.33 and 0.31 as 0.31
OrderTurnedOverAtThreshold ==
    /\ call.section = 1
    /\ call.a = P(3, 10)
    /\ call.b = P(31, 100)
    /\ call.fa = P(33, 100)
    /\ call.fb = P(31, 100)

\* C17, as stated: from the moment a request has made its result directory
\* until OpenFace has run, the directory exists; from the moment its table is
\* written until its last scorer has read it, the table exists; and no
\* request fails on reading its table, as none does when it runs alone.
RequestsAreIndependent ==
    \A r \in Requests :
        /\ reqs[r].pc = "upload" => r \in fs.dirs
        /\ reqs[r].pc \in {"load", "section"} => r \in fs.tables
        /\ reqs[r].outcome \notin {Raised("read_csv"), Raised("section")}

====
